---- MODULE Spec2Model ----
(***************************************************************************)
(* The travel agent of src/agents/agent.py (a LangGraph state graph with   *)
(* the nodes call_tools_llm, invoke_tools and email_sender, compiled with  *)
(* a MemorySaver checkpointer and interrupt_before=["email_sender"]), its  *)
(* three search tools (src/agents/tools) and the Streamlit handlers of     *)
(* src/app.py.                                                             *)
(*                                                                         *)
(* Spec      the application from its entry point: a click on "Get Travel  *)
(*           Information" starts a session, graph.invoke runs the nodes.   *)
(* SpecNodes the node functions and the form handler started from any      *)
(*           checkpoint their signatures admit (a thread about to run      *)
(*           invoke_tools on an assistant message with tool calls, a       *)
(*           thread interrupted before email_sender, a fresh thread).      *)
(* SpecClient the entry point against a model endpoint that answers in     *)
(*           incremental mode (newline-delimited fragments).               *)
(***************************************************************************)
EXTENDS Integers, Sequences, FiniteSets, TLC

\* ------------------------------------------------------------------ bounds
MaxThreads == 2
MaxCalls == 2
MaxFragments == 3

ThreadIds == 1..MaxThreads

\* ------------------------------------------------------------- messages
\* langchain_core messages as the code builds and reads them: content, and
\* the attributes the code touches. Only an AIMessage declares tool_calls;
\* HumanMessage, SystemMessage and ToolMessage have no such attribute.
Message(type, content, has_tool_calls, tool_calls, tool_call_id, name) ==
    [type |-> type, content |-> content, has_tool_calls |-> has_tool_calls,
     tool_calls |-> tool_calls, tool_call_id |-> tool_call_id, name |-> name]

HumanMessage(content) == Message("human", content, FALSE, <<>>, "", "")

SystemMessage(content) == Message("system", content, FALSE, <<>>, "", "")

ToolMessage(tool_call_id, name, content) ==
    Message("tool", content, FALSE, <<>>, tool_call_id, name)

\* The assistant message type of langchain_core (the one type with a
\* tool_calls attribute); agent.py never constructs it.
AIMessage(content, tool_calls) == Message("ai", content, TRUE, tool_calls, "", "")

Last(s) == s[Len(s)]

\* A state graph whose `messages` channel had no reducer: a node's return
\* value replaces the channel.
add_replacing(left, right) == right

\* operator.add, the reducer of AgentState["messages"]: what a node returns
\* is joined to the end of what the thread holds.
add(left, right) == left \o right

\* ---------------------------------------------------------------- tools
TOOLS == {"flights_finder", "hotels_finder", "attractions_finder"}

\* Names the model may emit: the registered ones and one that is not.
ToolNames == TOOLS \cup {"weather_finder"}

\* Argument mappings the model may emit, by what the tools do with them:
\* the attractions tool splits params.location at ',' and reads both parts.
ToolArgs == {"well_formed", "location_without_comma"}

\* What a tool hands back: a dict with an `error` or `message` key, a list
\* of n records, or (the dispatcher's own) a plain string.
Dict(key) == [kind |-> "dict", key |-> key, n |-> 0]
List(n) == [kind |-> "list", key |-> "", n |-> n]
Plain(s) == [kind |-> "str", key |-> s, n |-> 0]

Returned(result, http) == [raised |-> "", result |-> result, http |-> http]
Raised(exc, http) == [raised |-> exc, result |-> Plain(""), http |-> http]

\* Outcomes of the provider and of the environment, per tool.
FlightsOutcomes ==
    {"no_api_key", "http_error", "status_not_success", "no_flights",
     "flights", "flight_without_flights_key", "flight_with_no_legs"}

HotelsOutcomes ==
    {"no_api_key", "http_error", "no_properties", "empty_properties",
     "properties"}

AttractionsOutcomes ==
    {"http_error", "body_not_json", "no_elements", "elements_without_tags",
     "elements"}

flights_finder(args, outcome) ==
    CASE outcome = "no_api_key" -> Returned(Dict("error"), FALSE)
      [] outcome = "http_error" -> Returned(Dict("error"), TRUE)
      [] outcome = "status_not_success" -> Returned(Dict("error"), TRUE)
      [] outcome = "no_flights" -> Returned(Dict("message"), TRUE)
      [] outcome = "flight_without_flights_key" -> Returned(Dict("error"), TRUE)
      [] outcome = "flight_with_no_legs" -> Raised("IndexError", TRUE)
      [] OTHER -> Returned(List(1), TRUE)

hotels_finder(args, outcome) ==
    CASE outcome = "no_api_key" -> Returned(Dict("error"), FALSE)
      [] outcome = "http_error" -> Returned(Dict("error"), TRUE)
      [] outcome = "no_properties" -> Returned(Dict("message"), TRUE)
      [] outcome = "empty_properties" -> Returned(List(0), TRUE)
      [] OTHER -> Returned(List(1), TRUE)

attractions_finder(args, outcome) ==
    IF args = "location_without_comma"
    THEN Raised("IndexError", FALSE)
    ELSE CASE outcome = "http_error" -> Returned(Dict("error"), TRUE)
           [] outcome = "body_not_json" -> Returned(Dict("error"), TRUE)
           [] outcome = "no_elements" -> Returned(Dict("message"), TRUE)
           [] outcome = "elements_without_tags" -> Returned(Dict("message"), TRUE)
           [] OTHER -> Returned(List(1), TRUE)

Outcomes(name) ==
    CASE name = "flights_finder" -> FlightsOutcomes
      [] name = "hotels_finder" -> HotelsOutcomes
      [] name = "attractions_finder" -> AttractionsOutcomes
      [] OTHER -> {"not_called"}

\* self._tools[name].invoke(args)
Invoke(name, args, outcome) ==
    CASE name = "flights_finder" -> flights_finder(args, outcome)
      [] name = "hotels_finder" -> hotels_finder(args, outcome)
      [] OTHER -> attractions_finder(args, outcome)

\* str(result), the content of a ToolMessage.
Str(result) ==
    CASE result.kind = "str" -> result.key
      [] result.kind = "dict" -> "{'" \o result.key \o "': '...'}"
      [] result.n = 0 -> "[]"
      [] OTHER -> "[{...}]"

\* ------------------------------------------------------ the model client
TOOLS_SYSTEM_PROMPT == "TOOLS_SYSTEM_PROMPT"

EMAILS_SYSTEM_PROMPT == "EMAILS_SYSTEM_PROMPT"

Sentinel == "Error communicating with the language model."

CallId(i) == IF i = 1 THEN "call_1" ELSE IF i = 2 THEN "call_2" ELSE "call_3"

\* One tool invocation request: name, argument mapping, correlation id.
ToolCall(name, args, i) == [name |-> name, args |-> args, id |-> CallId(i)]

RequestKinds ==
    {<<n, "well_formed">> : n \in ToolNames}
        \cup {<<"attractions_finder", "location_without_comma">>}

\* The requests of one model turn, in the order the model presents them.
TurnRequests ==
    UNION {{[i \in 1..n |-> ToolCall(f[i][1], f[i][2], i)] :
               f \in [1..n -> RequestKinds]} : n \in 0..MaxCalls}

\* What the generation endpoint answers to one POST: a 2xx JSON body with a
\* `response` text (the tool invocations the model asks for in that turn ride
\* along in `asks`; the client reads `response` alone), a transport failure
\* (any requests.exceptions.RequestException, raise_for_status included), or
\* a 2xx JSON body without a `response` key.
AskedTurns ==
    UNION {{[i \in 1..n |-> ToolCall(f[i], "well_formed", i)] :
               f \in [1..n -> {"flights_finder", "hotels_finder"}]} : n \in 0..MaxCalls}

LlamaReplies ==
    {[kind |-> "ok", response |-> "answer", asks |-> a] : a \in AskedTurns}
        \cup {[kind |-> k, response |-> "", asks |-> <<>>] :
                 k \in {"transport_failure", "no_response_key"}}

NoReply == [kind |-> "none", response |-> "", asks |-> <<>>]

\* The partial-completion texts the endpoint may send in incremental mode.
Fragments == {"Par", "is is", " great", "Paris is"}

\* The endpoint in incremental mode: a 2xx body of newline-delimited JSON
\* objects, one per fragment, {"response": <fragment>, "done": <is it the
\* last>}. `json_error` is what response.json() raises on a body it cannot
\* parse as one JSON document: a requests.exceptions.RequestException with
\* the requests releases that define their own JSONDecodeError, a plain
\* ValueError with the older ones.
StreamReplies ==
    UNION {{[kind |-> "stream", response |-> "", asks |-> <<>>,
             fragments |-> f, json_error |-> e] :
               f \in [1..n -> Fragments], e \in {"RequestException", "ValueError"}} :
           n \in 1..MaxFragments}

\* Agent.invoke_llama(prompt): the text, the sentinel, or an exception.
\* response.json() reads the whole body as one JSON document: a body of one
\* fragment is one, a body of several is not.
invoke_llama(prompt, reply) ==
    CASE reply.kind = "ok" -> [raised |-> "", text |-> reply.response]
      [] reply.kind = "transport_failure" -> [raised |-> "", text |-> Sentinel]
      [] reply.kind = "stream" ->
            IF Len(reply.fragments) = 1
            THEN [raised |-> "", text |-> reply.fragments[1]]
            ELSE IF reply.json_error = "RequestException"
            THEN [raised |-> "", text |-> Sentinel]
            ELSE [raised |-> "ValueError", text |-> ""]
      [] OTHER -> [raised |-> "KeyError", text |-> ""]

\* Agent.exists_action(state): reads tool_calls of the last message.
exists_action(msgs) ==
    LET result == Last(msgs)
    IN  IF ~result.has_tool_calls THEN "AttributeError"
        ELSE IF Len(result.tool_calls) = 0 THEN "email_sender"
        ELSE "more_tools"

\* The conditional edge of call_tools_llm and the interrupt before
\* email_sender: the node the thread is at once the step is over.
Route(msgs) ==
    LET action == exists_action(msgs)
    IN  CASE action = "more_tools" -> "invoke_tools"
          [] action = "email_sender" -> "email_sender"
          [] OTHER -> "raised"

\* ---------------------------------------------------------------- state
VARIABLES
    messages,       \* thread -> AgentState["messages"] as the thread's run holds it
    next,           \* thread -> the node it is at: "none" (no such thread),
                    \*   "call_tools_llm", "invoke_tools", "email_sender"
                    \*   (interrupted before it), "END", "raised"
    error,          \* thread -> the exception that ended its run, "" if none
    pc,             \* the handler running: "idle", "process_query"
    running,        \* the thread graph.invoke is running, 0 if none
    session_state,  \* st.session_state: thread_id, travel_info (0 = absent)
    environ,        \* os.environ: FROM_EMAIL, TO_EMAIL, EMAIL_SUBJECT
    ui,             \* what the page last reported, and about which thread
    uuid_count,     \* thread ids handed out so far
    llm,            \* thread -> the endpoint's answer to its last model call
    prompt,         \* thread -> the prompt of its last model call
    dispatch,       \* thread -> the requests its last dispatch round handled
    rounds,         \* thread -> dispatch rounds started
    compositions,   \* thread -> email composition model calls
    sends,          \* thread -> resend.emails.send calls
    resumed         \* thread -> resumed from the interrupt

vars ==
    <<messages, next, error, pc, running, session_state, environ, ui,
      uuid_count, llm, prompt, dispatch, rounds, compositions, sends, resumed>>

Queries == {"Find flights and hotels in Paris", "Things to see in Rome"}

NoUi == [kind |-> "none", thread |-> 0]

InitWith(msgs, nxt, p, run, cnt) ==
    /\ messages = [t \in ThreadIds |-> IF t = 1 THEN msgs ELSE <<>>]
    /\ next = [t \in ThreadIds |-> IF t = 1 THEN nxt ELSE "none"]
    /\ error = [t \in ThreadIds |-> ""]
    /\ pc = p
    /\ running = run
    /\ session_state = [thread_id |-> run, travel_info |-> 0]
    /\ environ = [FROM_EMAIL |-> "", TO_EMAIL |-> "", EMAIL_SUBJECT |-> ""]
    /\ ui = NoUi
    /\ uuid_count = cnt
    /\ llm = [t \in ThreadIds |-> NoReply]
    /\ prompt = [t \in ThreadIds |-> <<>>]
    /\ dispatch = [t \in ThreadIds |-> <<>>]
    /\ rounds = [t \in ThreadIds |-> 0]
    /\ compositions = [t \in ThreadIds |-> 0]
    /\ sends = [t \in ThreadIds |-> 0]
    /\ resumed = [t \in ThreadIds |-> FALSE]

\* The page as first rendered: an Agent, no thread, nothing in the session.
Init == InitWith(<<>>, "none", "idle", 0, 0)

\* -------------------------------------------------------------- handlers
Stopped(t) == next[t] \in {"email_sender", "END", "raised"}

Contents(msgs) == [i \in 1..Len(msgs) |-> msgs[i].content]

\* app.py main -> process_query(user_input), up to its call of graph.invoke:
\* an empty input is refused; otherwise a fresh thread id is stored in the
\* session and the graph starts at its entry point on [HumanMessage(input)].
process_query(user_input) ==
    /\ pc = "idle"
    /\ IF user_input = ""
       THEN /\ ui' = [kind |-> "Please enter a travel query.", thread |-> 0]
            /\ UNCHANGED <<messages, next, pc, running, session_state, uuid_count>>
       ELSE /\ uuid_count < MaxThreads
            /\ LET thread_id == uuid_count + 1
               IN  /\ uuid_count' = thread_id
                   /\ session_state' = [session_state EXCEPT !.thread_id = thread_id]
                   /\ messages' = [messages EXCEPT ![thread_id] = <<HumanMessage(user_input)>>]
                   /\ next' = [next EXCEPT ![thread_id] = "call_tools_llm"]
                   /\ running' = thread_id
            /\ pc' = "process_query"
            /\ UNCHANGED ui
    /\ UNCHANGED <<error, environ, llm, prompt, dispatch, rounds, compositions,
                   sends, resumed>>

\* Agent.call_tools_llm with the conditional edge that follows it: one model
\* call on the system prompt and every message's content, the response
\* appended as a SystemMessage, then exists_action on the new state.
call_tools_llm(t, reply) ==
    /\ pc = "process_query"
    /\ running = t
    /\ next[t] = "call_tools_llm"
    /\ LET input_prompt == <<TOOLS_SYSTEM_PROMPT>> \o Contents(messages[t])
           response == invoke_llama(input_prompt, reply)
           appended == add(messages[t], <<SystemMessage(response.text)>>)
       IN  /\ prompt' = [prompt EXCEPT ![t] = input_prompt]
           /\ llm' = [llm EXCEPT ![t] = reply]
           /\ IF response.raised # ""
              THEN /\ next' = [next EXCEPT ![t] = "raised"]
                   /\ error' = [error EXCEPT ![t] = response.raised]
                   /\ UNCHANGED messages
              ELSE /\ messages' = [messages EXCEPT ![t] = appended]
                   /\ next' = [next EXCEPT ![t] = Route(appended)]
                   /\ error' = [error EXCEPT ![t] =
                                   IF Route(appended) = "raised"
                                   THEN exists_action(appended) ELSE ""]
    /\ UNCHANGED <<pc, running, session_state, environ, ui, uuid_count, dispatch,
                   rounds, compositions, sends, resumed>>

\* What invoke_tools does with request t of the turn.
Handle(call, outcome) ==
    IF call.name \notin TOOLS
    THEN Returned(Plain("bad tool name, retry"), FALSE)
    ELSE Invoke(call.name, call.args, outcome)

\* The first request whose handling raises, 0 if none does.
FirstRaise(tool_calls, outs) ==
    LET bad == {i \in 1..Len(tool_calls) : Handle(tool_calls[i], outs[i]).raised # ""}
    IN  IF bad = {} THEN 0 ELSE CHOOSE i \in bad : \A j \in bad : i <= j

\* results.append(ToolMessage(...)) for the requests 1..n, in that order.
Results(tool_calls, outs, n) ==
    [i \in 1..n |->
        ToolMessage(tool_calls[i].id, tool_calls[i].name,
                    Str(Handle(tool_calls[i], outs[i]).result))]

Handled(tool_calls, outs, n) ==
    [i \in 1..n |->
        [name |-> tool_calls[i].name, id |-> tool_calls[i].id,
         outcome |-> outs[i],
         invoked |-> tool_calls[i].name \in TOOLS,
         result |-> Handle(tool_calls[i], outs[i]).result,
         http |-> Handle(tool_calls[i], outs[i]).http,
         raised |-> Handle(tool_calls[i], outs[i]).raised]]

AllOutcomes == UNION {Outcomes(n) : n \in ToolNames}

\* Agent.invoke_tools and the edge back to call_tools_llm: the requests of
\* the last message are handled one after the other; the messages are
\* returned together at the end, so a request that raises leaves none.
invoke_tools(t, outs) ==
    /\ pc = "process_query"
    /\ running = t
    /\ next[t] = "invoke_tools"
    /\ LET tool_calls == Last(messages[t]).tool_calls
           n == Len(tool_calls)
           r == FirstRaise(tool_calls, outs)
       IN  /\ DOMAIN outs = 1..n
           /\ \A i \in 1..n : outs[i] \in Outcomes(tool_calls[i].name)
           /\ rounds' = [rounds EXCEPT ![t] = @ + 1]
           /\ IF r = 0
              THEN /\ messages' = [messages EXCEPT ![t] = add(@, Results(tool_calls, outs, n))]
                   /\ next' = [next EXCEPT ![t] = "call_tools_llm"]
                   /\ dispatch' = [dispatch EXCEPT ![t] = Handled(tool_calls, outs, n)]
                   /\ UNCHANGED error
              ELSE /\ next' = [next EXCEPT ![t] = "raised"]
                   /\ error' = [error EXCEPT ![t] = Handle(tool_calls[r], outs[r]).raised]
                   /\ dispatch' = [dispatch EXCEPT ![t] = Handled(tool_calls, outs, r)]
                   /\ UNCHANGED messages
    /\ UNCHANGED <<pc, running, session_state, environ, ui, uuid_count, llm,
                   prompt, compositions, sends, resumed>>

\* process_query once graph.invoke is back: the result is shown and kept in
\* the session, or the exception is caught and reported.
process_query_return ==
    /\ pc = "process_query"
    /\ Stopped(running)
    /\ IF next[running] = "raised"
       THEN /\ ui' = [kind |-> "Error", thread |-> running]
            /\ UNCHANGED session_state
       ELSE /\ ui' = [kind |-> "Travel Information", thread |-> running]
            /\ session_state' = [session_state EXCEPT !.travel_info = running]
    /\ pc' = "idle"
    /\ running' = 0
    /\ UNCHANGED <<messages, next, error, environ, uuid_count, llm, prompt,
                   dispatch, rounds, compositions, sends, resumed>>

FormInputs == {"", "filled"}

\* render_email_form with "Yes" chosen and the form submitted.
render_email_form(sender_email, receiver_email, subject) ==
    /\ pc = "idle"
    /\ session_state.travel_info # 0
    /\ IF sender_email # "" /\ receiver_email # "" /\ subject # ""
       THEN /\ environ' = [FROM_EMAIL |-> sender_email, TO_EMAIL |-> receiver_email,
                           EMAIL_SUBJECT |-> subject]
            /\ ui' = [kind |-> "Email sent successfully!",
                      thread |-> session_state.thread_id]
            /\ session_state' = [thread_id |-> 0, travel_info |-> 0]
       ELSE /\ ui' = [kind |-> "Please fill out all email fields.",
                      thread |-> session_state.thread_id]
            /\ UNCHANGED <<environ, session_state>>
    /\ UNCHANGED <<messages, next, error, pc, running, uuid_count, llm, prompt,
                   dispatch, rounds, compositions, sends, resumed>>

MailOutcomes == {"client_error", "sent", "send_error"}

\* graph.invoke(None, config) on a thread interrupted before email_sender:
\* Agent.email_sender runs (one model call for the HTML, the mail client is
\* created, one send inside try/except), then the edge to END.
email_sender(t, reply, mail) ==
    /\ pc = "idle"
    /\ next[t] = "email_sender"
    /\ LET email_prompt == <<EMAILS_SYSTEM_PROMPT, Last(messages[t]).content>>
           email_response == invoke_llama(email_prompt, reply)
       IN  /\ resumed' = [resumed EXCEPT ![t] = TRUE]
           /\ prompt' = [prompt EXCEPT ![t] = email_prompt]
           /\ llm' = [llm EXCEPT ![t] = reply]
           /\ compositions' = [compositions EXCEPT ![t] = @ + 1]
           /\ IF email_response.raised # ""
              THEN /\ next' = [next EXCEPT ![t] = "raised"]
                   /\ error' = [error EXCEPT ![t] = email_response.raised]
                   /\ UNCHANGED sends
              ELSE IF mail = "client_error"
              THEN /\ next' = [next EXCEPT ![t] = "raised"]
                   /\ error' = [error EXCEPT ![t] = "ResendError"]
                   /\ UNCHANGED sends
              ELSE /\ sends' = [sends EXCEPT ![t] = @ + 1]
                   /\ next' = [next EXCEPT ![t] = "END"]
                   /\ UNCHANGED error
    /\ UNCHANGED <<messages, pc, running, session_state, environ, ui, uuid_count,
                   dispatch, rounds>>

\* ------------------------------------------------------- specifications
GetTravelInformation == \E user_input \in Queries \cup {""} : process_query(user_input)

CallToolsLlm == \E t \in ThreadIds, reply \in LlamaReplies : call_tools_llm(t, reply)

InvokeTools ==
    \E t \in ThreadIds :
        /\ next[t] = "invoke_tools"
        /\ \E outs \in [1..Len(Last(messages[t]).tool_calls) -> AllOutcomes] :
              invoke_tools(t, outs)

ProcessQueryReturn == process_query_return

SubmitEmailForm ==
    \E sender_email \in FormInputs, receiver_email \in FormInputs, subject \in FormInputs :
        render_email_form(sender_email, receiver_email, subject)

EmailReplies == {r \in LlamaReplies : r.asks = <<>>}

Resume ==
    \E t \in ThreadIds, reply \in EmailReplies, mail \in MailOutcomes :
        email_sender(t, reply, mail)

\* The run from the entry point: it ends in the routing that follows the
\* first model call, so these are the steps it takes.
Next == GetTravelInformation \/ CallToolsLlm \/ ProcessQueryReturn

Spec == Init /\ [][Next]_vars

\* Every node function and handler, from any checkpoint it admits.
InitNodes ==
    \/ Init
    \/ \E q \in Queries, tool_calls \in TurnRequests :
          /\ Len(tool_calls) >= 1
          /\ InitWith(<<HumanMessage(q), AIMessage("", tool_calls)>>,
                      "invoke_tools", "process_query", 1, 1)
    \/ \E q \in Queries :
          InitWith(<<HumanMessage(q), AIMessage("answer", <<>>)>>,
                   "email_sender", "process_query", 1, 1)

NextNodes ==
    \/ GetTravelInformation
    \/ CallToolsLlm
    \/ InvokeTools
    \/ ProcessQueryReturn
    \/ SubmitEmailForm
    \/ Resume

SpecNodes == InitNodes /\ [][NextNodes]_vars

\* The model client against an endpoint in incremental mode.
CallToolsLlmStreamed ==
    \E t \in ThreadIds, reply \in StreamReplies : call_tools_llm(t, reply)

NextClient == GetTravelInformation \/ CallToolsLlmStreamed \/ ProcessQueryReturn

SpecClient == Init /\ [][NextClient]_vars

\* --------------------------------------------------------------- claims
\* The model-call step has completed on thread t: its message, the only
\* SystemMessage the code builds, is the last one.
ModelTurnDone(t) ==
    /\ Len(messages[t]) >= 1
    /\ Last(messages[t]).type = "system"

ListsRequests(m) == m.has_tool_calls /\ Len(m.tool_calls) >= 1

\* C1: after every model-call step the thread is at tool dispatch if the
\* message just appended lists at least one tool invocation request and at
\* the email-approval pause otherwise; there is no third outcome.
C1_RoutesToDispatchOrPause ==
    \A t \in ThreadIds :
        ModelTurnDone(t) =>
            /\ next[t] \in {"invoke_tools", "email_sender"}
            /\ next[t] = "invoke_tools" <=> ListsRequests(Last(messages[t]))

\* C2: no send happens before the pause and a resume: every run a query
\* started stops at the email-approval pause with zero send attempts made.
C2_RunStopsAtPauseUnsent ==
    \A t \in ThreadIds :
        /\ sends[t] > 0 => resumed[t]
        /\ (Stopped(t) /\ ~resumed[t]) => (next[t] = "email_sender" /\ sends[t] = 0)

\* C3: the form reports success (and clears the session) only for a session
\* whose email step has run: the paused run was resumed, the email composed
\* and the send attempted.
C3_SuccessOnlyAfterEmailStep ==
    ui.kind = "Email sent successfully!" =>
        /\ ui.thread # 0
        /\ resumed[ui.thread]
        /\ compositions[ui.thread] >= 1
        /\ sends[ui.thread] >= 1

AsksFlightsAndHotels(asks) ==
    /\ Len(asks) = 2
    /\ asks[1].name = "flights_finder"
    /\ asks[2].name = "hotels_finder"

\* The place of the message whose requests thread t dispatches.
RequestIndex(t) ==
    CHOOSE k \in 1..Len(messages[t]) :
        /\ ListsRequests(messages[t][k])
        /\ \A j \in 1..Len(messages[t]) : ListsRequests(messages[t][j]) => j <= k

\* C4: a model turn that asks for a flights and a hotels invocation takes the
\* run into tool dispatch, both tools are invoked, both results are appended
\* in request order, and the run then stops at the pause before the email
\* step.
C4_RequestedToolsAreDispatched ==
    \A t \in ThreadIds :
        (ModelTurnDone(t) /\ AsksFlightsAndHotels(llm[t].asks)) =>
            /\ next[t] = "invoke_tools" \/ rounds[t] >= 1
            /\ rounds[t] >= 1 =>
                  /\ Len(dispatch[t]) = 2
                  /\ dispatch[t][1].name = "flights_finder" /\ dispatch[t][1].invoked
                  /\ dispatch[t][2].name = "hotels_finder" /\ dispatch[t][2].invoked
            /\ Stopped(t) => next[t] = "email_sender"

\* The i-th message after the requests answers request i of tool_calls.
Answers(t, k, tool_calls, i) ==
    /\ Len(messages[t]) >= k + i
    /\ messages[t][k + i].type = "tool"
    /\ messages[t][k + i].tool_call_id = tool_calls[i].id
    /\ messages[t][k + i].name = tool_calls[i].name

\* C5: one dispatch round over requests r1..rn appends exactly n tool-result
\* messages, the i-th with the correlation identifier and tool name of ri,
\* and returns to the model-call step.
C5_RoundAnswersEveryRequestInOrder ==
    \A t \in ThreadIds :
        rounds[t] >= 1 =>
            LET k == RequestIndex(t)
                tool_calls == messages[t][k].tool_calls
                n == Len(tool_calls)
            IN  /\ \A i \in 1..n : Answers(t, k, tool_calls, i)
                /\ Len(messages[t]) > k + n => messages[t][k + n + 1].type # "tool"
                /\ Len(messages[t]) = k + n => next[t] = "call_tools_llm"

\* C6: a request naming an unregistered tool gets exactly one synthetic
\* result, "bad tool name, retry", no tool is invoked for it, the other
\* requests of the turn are dispatched, and the round returns to the
\* model-call step instead of ending abnormally.
C6_BadToolNameIsAnsweredWithRetry ==
    \A t \in ThreadIds :
        rounds[t] >= 1 =>
            LET k == RequestIndex(t)
                tool_calls == messages[t][k].tool_calls
                n == Len(tool_calls)
            IN  (\E i \in 1..n : tool_calls[i].name \notin TOOLS) =>
                    /\ Len(dispatch[t]) = n
                    /\ \A i \in 1..n :
                          /\ Answers(t, k, tool_calls, i)
                          /\ tool_calls[i].name \notin TOOLS =>
                                /\ messages[t][k + i].content = "bad tool name, retry"
                                /\ ~dispatch[t][i].invoked
                          /\ tool_calls[i].name \in TOOLS => dispatch[t][i].invoked
                    /\ Len(messages[t]) = k + n => next[t] = "call_tools_llm"

\* C7: whatever the tool, the arguments and the upstream outcome, a tool
\* invocation hands the dispatcher a result, never an exception, and the
\* result is appended.
C7_DispatchNeverAborts ==
    \A t \in ThreadIds :
        /\ \A i \in 1..Len(dispatch[t]) : dispatch[t][i].raised = ""
        /\ rounds[t] >= 1 =>
              Len(messages[t]) >= RequestIndex(t) + Len(dispatch[t])

CredentialAbsent == {"no_api_key"}
HttpFailure == {"http_error"}
EmptyResultSet ==
    {"no_flights", "no_properties", "empty_properties", "no_elements",
     "elements_without_tags"}

\* C8: an absent API key (no HTTP request made), a failed HTTP call and an
\* empty result set each come back from a search tool as a dict with an
\* `error` or a `message` key, never as an exception or a bare list.
C8_FailuresAreStructuredResults ==
    \A t \in ThreadIds :
        \A i \in 1..Len(dispatch[t]) :
            LET e == dispatch[t][i]
            IN  (e.invoked /\ e.outcome \in CredentialAbsent \cup HttpFailure \cup EmptyResultSet) =>
                    /\ e.raised = ""
                    /\ e.result.kind = "dict"
                    /\ e.result.key \in {"error", "message"}
                    /\ e.outcome \in CredentialAbsent => ~e.http

\* C9: a transport failure of the model call raises nothing: the sentinel is
\* appended as an ordinary message, the turn has no tool requests, and the
\* run reaches the email-approval pause.
C9_SentinelTurnReachesPause ==
    \A t \in ThreadIds :
        (llm[t].kind = "transport_failure" /\ ~resumed[t]) =>
            /\ error[t] = ""
            /\ Last(messages[t]) = SystemMessage(Sentinel)
            /\ next[t] = "email_sender"

\* C10: once resumed, the run makes exactly one email composition (a model
\* call on the formatting instruction followed by the last message's
\* content) and exactly one send attempt and is then at DONE.
C10_ResumeComposesSendsOnceAndEnds ==
    \A t \in ThreadIds :
        resumed[t] =>
            /\ compositions[t] = 1
            /\ prompt[t] = <<EMAILS_SYSTEM_PROMPT, Last(messages[t]).content>>
            /\ sends[t] = 1
            /\ next[t] = "END"

RECURSIVE Concat(_)
\* The fragments joined in arrival order.
Concat(fragments) ==
    IF fragments = <<>> THEN ""
    ELSE fragments[1] \o Concat(Tail(fragments))

\* C11: in incremental mode generate returns the concatenation of the
\* `response` fragments in arrival order, whatever the fragment boundaries:
\* the text the model-call step appends is that concatenation.
C11_StreamIsAssembledInOrder ==
    \A t \in ThreadIds :
        llm[t].kind = "stream" =>
            /\ error[t] \notin {"ValueError", "KeyError"}
            /\ Len(messages[t]) >= 2
            /\ Last(messages[t]).content = Concat(llm[t].fragments)

\* C12: a failure anywhere in the email step (the composition model call,
\* the creation of the mail client, the send) stays inside the step: the
\* resumed run raises nothing, reaches DONE, and the conversation state
\* after the step is the one before it.
C12_EmailFailuresAreContained ==
    [][\A t \in ThreadIds :
          (resumed'[t] /\ ~resumed[t]) =>
              /\ error'[t] = ""
              /\ next'[t] = "END"
              /\ messages'[t] = messages[t]]_vars

IsPrefix(s, r) == Len(s) <= Len(r) /\ SubSeq(r, 1, Len(s)) = s

FirstIsQuery ==
    \A t \in ThreadIds :
        messages[t] # <<>> =>
            /\ messages[t][1].type = "human"
            /\ messages[t][1].content \in Queries

\* C13: the messages of a session are append-only: each step leaves every
\* thread's earlier sequence as a prefix of its new one, the first message
\* is the user's query, and a thread's messages are extended only by the run
\* on that thread (a new query starts a fresh thread and leaves the others'
\* messages as they were).
C13_MessagesAreAppendOnly ==
    /\ FirstIsQuery
    /\ [][/\ FirstIsQuery'
          /\ \A t \in ThreadIds :
                /\ IsPrefix(messages[t], messages'[t])
                /\ messages'[t] # messages[t] => running' = t]_vars

\* Two sessions: the first went through a dispatch round and a model call,
\* the second, started by a later query, through its own model call.
C13_TwoSessionsGrew ==
    /\ rounds[1] >= 1
    /\ Len(messages[1]) >= 4
    /\ Last(messages[1]).type = "system"
    /\ Len(messages[2]) >= 2

====
